---- MODULE Spec2Model ----
(***************************************************************************)
(* Model of dashboard.py: a Streamlit script that reads an uploaded CSV of *)
(* dated debit/credit transactions, derives net_amount per record, builds  *)
(* monthly (sum, mean, median) and weekday aggregates, and renders charts. *)
(* One run of main() is one action; the session is a sequence of runs.     *)
(***************************************************************************)
EXTENDS Integers, Sequences, FiniteSets, TLC

\* Largest number of data rows of an uploaded file.
MaxRows == 3

-----------------------------------------------------------------------------
(* Cell values.  A numeric cell is a float: a finite rational n/d in lowest *)
(* terms, the negative zero, or the missing value NaN.                      *)

Abs(n) == IF n < 0 THEN -n ELSE n

RECURSIVE GCD(_, _)
GCD(a, b) == IF b = 0 THEN a ELSE GCD(b, a % b)

Fl(n) == [kind |-> "fin", n |-> n, d |-> 1]
NegZero == [kind |-> "neg0", n |-> 0, d |-> 1]
NaN == [kind |-> "nan", n |-> 0, d |-> 1]

Rat(n, d) ==
    LET g == GCD(Abs(n), d)
    IN  [kind |-> "fin", n |-> n \div g, d |-> d \div g]

\* a - b; a zero difference is -0.0 only for (-0.0) - (+0.0)
Sub(a, b) ==
    IF a.kind = "nan" \/ b.kind = "nan" THEN NaN
    ELSE LET n == a.n * b.d - b.n * a.d
         IN  IF n = 0
             THEN IF a.kind = "neg0" /\ b.kind = "fin" THEN NegZero ELSE Fl(0)
             ELSE Rat(n, a.d * b.d)

\* a + b; a zero sum is -0.0 only for (-0.0) + (-0.0)
Add(a, b) ==
    IF a.kind = "nan" \/ b.kind = "nan" THEN NaN
    ELSE LET n == a.n * b.d + b.n * a.d
         IN  IF n = 0
             THEN IF a.kind = "neg0" /\ b.kind = "neg0" THEN NegZero ELSE Fl(0)
             ELSE Rat(n, a.d * b.d)

\* a / k for a positive count k
Div(a, k) ==
    IF a.kind = "nan" THEN NaN
    ELSE IF a.n = 0 THEN a
    ELSE Rat(a.n, a.d * k)

\* Python's  x == 0.0  (true of both zeros, false of NaN)
EqZero(x) == x.kind # "nan" /\ x.n = 0

\* numeric comparison of two non-missing values
NumEq(a, b) == a.kind # "nan" /\ b.kind # "nan" /\ a.n * b.d = b.n * a.d
NumLeq(a, b) == a.n * b.d <= b.n * a.d

-----------------------------------------------------------------------------
(* Calendar: what DatetimeIndex.dayofweek, strftime and the month-end       *)
(* offset compute from a date [year, month, day].                           *)

Date(y, m, d) == [year |-> y, month |-> m, day |-> d]

dayofweek_sunday0(dt) ==
    LET t == <<0, 3, 2, 5, 0, 3, 5, 1, 4, 6, 2, 4>>
        y == IF dt.month < 3 THEN dt.year - 1 ELSE dt.year
    IN  (y + (y \div 4) - (y \div 100) + (y \div 400) + t[dt.month] + dt.day) % 7

\* Monday = 0 ... Sunday = 6
dayofweek(dt) ==
    LET t == <<0, 3, 2, 5, 0, 3, 5, 1, 4, 6, 2, 4>>
        y == IF dt.month < 3 THEN dt.year - 1 ELSE dt.year
        s == (y + (y \div 4) - (y \div 100) + (y \div 400) + t[dt.month] + dt.day) % 7
    IN  (s + 6) % 7

DayNames ==
    <<"Monday", "Tuesday", "Wednesday", "Thursday", "Friday", "Saturday", "Sunday">>

MonthNames ==
    <<"January", "February", "March", "April", "May", "June", "July",
      "August", "September", "October", "November", "December">>

\* strftime("%A")
day_name(dt) == DayNames[dayofweek(dt) + 1]

\* strftime("%B %Y")
month_name(dt) == MonthNames[dt.month] \o " " \o ToString(dt.year)

IsLeap(y) == (y % 4 = 0 /\ y % 100 # 0) \/ y % 400 = 0

DaysInMonth(y, m) ==
    IF m = 2 THEN (IF IsLeap(y) THEN 29 ELSE 28)
    ELSE IF m \in {4, 6, 9, 11} THEN 30 ELSE 31

\* months are numbered consecutively across years
MonthIdx(dt) == dt.year * 12 + (dt.month - 1)

\* the label of a "ME" bin: the last day of the month
MonthEnd(mi) ==
    LET y == mi \div 12
        m == (mi % 12) + 1
    IN  Date(y, m, DaysInMonth(y, m))

-----------------------------------------------------------------------------
(* Tables.  A DataFrame is a sequence of rows; a row maps column names     *)
(* (the index included) to cells.  An uploaded file is its header (cols)   *)
(* and its data rows; uploaded_file is NoFile when the uploader is empty.  *)

Columns == {"date", "debit", "credit"}

NoFile == [present |-> FALSE, cols |-> {}, rows |-> <<>>]
File(cols, rows) == [present |-> TRUE, cols |-> cols, rows |-> rows]

Row(dt, debit, credit) == [date |-> dt, debit |-> debit, credit |-> credit]

\* a table or a column given row by row, as the sequence of its rows
Table(f) == f \o <<>>

\* the rows of a table restricted to some of its columns
Project(df, cols) == Table([i \in 1..Len(df) |-> [c \in cols |-> df[i][c]]])

\* the cells of one column, in row order
Values(df, c) == Table([i \in 1..Len(df) |-> df[i][c]])

\* pd.read_csv: no header line at all raises EmptyDataError
read_csv(f) ==
    IF f.cols = {}
    THEN [raised |-> TRUE, df |-> <<>>]
    ELSE [raised |-> FALSE, df |-> f.rows]

empty_never(df) == FALSE

\* DataFrame.empty
empty(df) == Len(df) = 0

-----------------------------------------------------------------------------
(* Net amount.                                                              *)

calculate_net_amount_signed(row, analysis_type) ==
    IF ~({"credit", "debit"} \subseteq DOMAIN row)
    THEN [raised |-> TRUE, value |-> NaN]
    ELSE IF analysis_type = "Credit Based"
    THEN [raised |-> FALSE, value |-> Sub(row["credit"], row["debit"])]
    ELSE IF analysis_type = "Debit Based"
    THEN [raised |-> FALSE, value |-> Sub(row["debit"], row["credit"])]
    ELSE [raised |-> FALSE, value |-> NaN]

\* row["credit"] / row["debit"] raise KeyError on a row without the column
calculate_net_amount(row, analysis_type) ==
    IF ~({"credit", "debit"} \subseteq DOMAIN row)
    THEN [raised |-> TRUE, value |-> NaN]
    ELSE IF analysis_type = "Credit Based"
    THEN IF EqZero(Sub(row["credit"], row["debit"]))
         THEN [raised |-> FALSE, value |-> Fl(0)]
         ELSE [raised |-> FALSE, value |-> Sub(row["credit"], row["debit"])]
    ELSE IF analysis_type = "Debit Based"
    THEN IF EqZero(Sub(row["debit"], row["credit"]))
         THEN [raised |-> FALSE, value |-> Fl(0)]
         ELSE [raised |-> FALSE, value |-> Sub(row["debit"], row["credit"])]
    ELSE [raised |-> FALSE, value |-> NaN]

\* og_df.apply(lambda x: calculate_net_amount(x, "Credit Based"), axis=1)
apply_net_amount(df) ==
    LET res == Table([i \in 1..Len(df) |->
                         calculate_net_amount(df[i], "Credit Based")])
    IN  IF \E i \in 1..Len(df) : res[i].raised
        THEN [raised |-> TRUE, df |-> df]
        ELSE [raised |-> FALSE,
              df |-> Table([i \in 1..Len(df) |->
                              [date |-> df[i]["date"],
                               debit |-> df[i]["debit"],
                               credit |-> df[i]["credit"],
                               net_amount |-> res[i].value]])]

-----------------------------------------------------------------------------
(* Reductions of a column of cells.                                         *)

RECURSIVE SumSeq(_)
SumSeq(s) ==
    IF s = <<>> THEN Fl(0)
    ELSE Add(SumSeq(SubSeq(s, 1, Len(s) - 1)), s[Len(s)])

Mean(s) == IF s = <<>> THEN NaN ELSE Div(SumSeq(s), Len(s))

RECURSIVE Insert(_, _)
Insert(x, s) ==
    IF s = <<>> THEN <<x>>
    ELSE IF NumLeq(x, Head(s)) THEN <<x>> \o s
    ELSE <<Head(s)>> \o Insert(x, Tail(s))

RECURSIVE Sorted(_)
Sorted(s) == IF s = <<>> THEN <<>> ELSE Insert(Head(s), Sorted(Tail(s)))

Median_lower(s) ==
    IF s = <<>> THEN NaN
    ELSE LET t == Sorted(s)
         IN  t[(Len(t) + 1) \div 2]

Median(s) ==
    IF s = <<>> THEN NaN
    ELSE LET t == Sorted(s)
             n == Len(t)
         IN  IF n % 2 = 1 THEN t[(n + 1) \div 2]
             ELSE Div(Add(t[n \div 2], t[(n \div 2) + 1]), 2)

-----------------------------------------------------------------------------
(* Monthly aggregation: df.resample("ME") makes one bin per calendar month  *)
(* from the month of the earliest date to the month of the latest date,     *)
(* each labelled by its month end, whether or not a record falls in it.     *)

MinMonth(df) ==
    CHOOSE m \in {MonthIdx(df[i]["date"]) : i \in 1..Len(df)} :
        \A i \in 1..Len(df) : m <= MonthIdx(df[i]["date"])

MaxMonth(df) ==
    CHOOSE m \in {MonthIdx(df[i]["date"]) : i \in 1..Len(df)} :
        \A i \in 1..Len(df) : m >= MonthIdx(df[i]["date"])

InMonth(df, mi) == SelectSeq(df, LAMBDA r : MonthIdx(r["date"]) = mi)

\* the bins first..last, each with the records that fall in it
Bins(df, first, last) ==
    Table([k \in 1..(last - first + 1) |->
             [date |-> MonthEnd(first + k - 1), group |-> InMonth(df, first + k - 1)]])

resample_ME_occupied(df) ==
    IF Len(df) = 0 THEN <<>>
    ELSE SelectSeq(Bins(df, MinMonth(df), MaxMonth(df)), LAMBDA b : b.group # <<>>)

resample_ME_open(df) ==
    IF Len(df) = 0 THEN <<>>
    ELSE Bins(df, MinMonth(df), MaxMonth(df) - 1)

resample_ME(df) ==
    IF Len(df) = 0 THEN <<>>
    ELSE Bins(df, MinMonth(df), MaxMonth(df))

\* one output row per bin: the bin label and a reduction of each value column
Reduce(bins, how) ==
    LET R(s) == CASE how = "sum" -> SumSeq(s)
                  [] how = "mean" -> Mean(s)
                  [] how = "median" -> Median(s)
    IN  Table([k \in 1..Len(bins) |->
                 [date |-> bins[k].date,
                  debit |-> R(Values(bins[k].group, "debit")),
                  credit |-> R(Values(bins[k].group, "credit")),
                  net_amount |-> R(Values(bins[k].group, "net_amount"))]])

compute_monthly_sum(df) == Reduce(resample_ME(df), "sum")

compute_monthly_average(df) == Reduce(resample_ME(df), "mean")

compute_monthly_median(df) == Reduce(resample_ME(df), "median")

\* df["month_name"] = df.index.strftime("%B %Y"), then rename net_amount
label_months(df, renamed) ==
    Table([i \in 1..Len(df) |->
             (renamed :> df[i]["net_amount"])
             @@ [date |-> df[i]["date"],
                 debit |-> df[i]["debit"],
                 credit |-> df[i]["credit"],
                 month_name |-> month_name(df[i]["date"])]])

\* pd.merge(left, right, how="inner", on="month_name")
RECURSIVE merge(_, _)
merge(left, right) ==
    IF left = <<>> THEN <<>>
    ELSE LET l == Head(left)
             m == SelectSeq(right, LAMBDA r : r["month_name"] = l["month_name"])
         IN  Table([i \in 1..Len(m) |-> l @@ m[i]]) \o merge(Tail(left), right)

MergedColumns ==
    {"month_name", "debit", "credit", "sum_net_amount", "avg_net_amount",
     "median_net_amount"}

\* lines 62-96 of main: label, rename, join on the label, project
merge_monthly(sum_df, average_df, median_df) ==
    LET s == Project(label_months(sum_df, "sum_net_amount"),
                     {"month_name", "debit", "credit", "sum_net_amount"})
        a == Project(label_months(average_df, "avg_net_amount"),
                     {"avg_net_amount", "month_name"})
        m == Project(label_months(median_df, "median_net_amount"),
                     {"median_net_amount", "month_name"})
    IN  Project(merge(merge(s, a), m), MergedColumns)

-----------------------------------------------------------------------------
(* Weekday aggregation.                                                     *)

re_order == <<"Monday", "Tuesday", "Wednesday", "Thursday", "Friday">>

\* groupby sorts its keys: the day names in alphabetical order
SortedDayNames ==
    <<"Friday", "Monday", "Saturday", "Sunday", "Thursday", "Tuesday", "Wednesday">>

OnDay(df, name) == SelectSeq(df, LAMBDA r : day_name(r["date"]) = name)

\* df.groupby(df["day_name"]).sum(): a row per day name that occurs, sorted
groupby_day_name_sum(df) ==
    LET keys == SelectSeq(SortedDayNames, LAMBDA d : OnDay(df, d) # <<>>)
    IN  Table([k \in 1..Len(keys) |->
                 [day_name |-> keys[k],
                  debit |-> SumSeq(Values(OnDay(df, keys[k]), "debit")),
                  credit |-> SumSeq(Values(OnDay(df, keys[k]), "credit")),
                  net_amount |-> SumSeq(Values(OnDay(df, keys[k]), "net_amount"))]])

reindex_present(df, labels) == df

reindex_fill0(df, labels) ==
    Table([k \in 1..Len(labels) |->
             LET hit == SelectSeq(df, LAMBDA r : r["day_name"] = labels[k])
             IN  IF hit # <<>> THEN hit[1]
                 ELSE [day_name |-> labels[k], debit |-> Fl(0), credit |-> Fl(0),
                       net_amount |-> Fl(0)]])

\* weekday_df.reindex(re_order): a label without a row gets missing values
reindex(df, labels) ==
    Table([k \in 1..Len(labels) |->
             LET hit == SelectSeq(df, LAMBDA r : r["day_name"] = labels[k])
             IN  IF hit # <<>> THEN hit[1]
                 ELSE [day_name |-> labels[k], debit |-> NaN, credit |-> NaN,
                       net_amount |-> NaN]])

\* df[df.index.dayofweek < 5]
weekday_filter(df) == SelectSeq(df, LAMBDA r : dayofweek(r["date"]) < 5)

compute_weekday_sum(df) ==
    LET weekday_df == reindex(groupby_day_name_sum(weekday_filter(df)), re_order)
    IN  Table([k \in 1..Len(weekday_df) |->
                 [day_name |-> weekday_df[k]["day_name"],
                  debit |-> weekday_df[k]["debit"],
                  credit |-> weekday_df[k]["credit"],
                  net_amount |-> weekday_df[k]["net_amount"],
                  day |-> weekday_df[k]["day_name"]]])

-----------------------------------------------------------------------------
(* Presentation: the three charts of the page, each a list of bar traces.   *)

Trace(name, df, x, y) == [name |-> name, x |-> Values(df, x), y |-> Values(df, y)]

render(merged, weekday) ==
    << [title |-> "Net Amount per Month",
        traces |-> <<Trace("", merged, "month_name", "sum_net_amount")>>],
       [title |-> "Monthly Average & Median",
        traces |-> <<Trace("Average", merged, "month_name", "avg_net_amount"),
                     Trace("Median", merged, "month_name", "median_net_amount")>>],
       [title |-> "Net amount per weekday",
        traces |-> <<Trace("", weekday, "day", "net_amount")>>] >>

-----------------------------------------------------------------------------
(* One run of main().  Every run is a fresh execution of the script: the    *)
(* names of main are unbound at entry and the page starts with no chart.    *)

UnboundStale(previous) == previous

\* what a name holds at the entry of a run, whatever the last run left in it
Unbound(previous) == <<>>

Stopped_silent(prev, df, outcome, failed_at) ==
    [og_df |-> df,
     monthly_sum_df |-> Unbound(prev.monthly_sum_df),
     monthly_average_df |-> Unbound(prev.monthly_average_df),
     monthly_median_df |-> Unbound(prev.monthly_median_df),
     merged_df |-> Unbound(prev.merged_df),
     weekday_df |-> Unbound(prev.weekday_df),
     charts |-> Unbound(prev.charts),
     outcome |-> "no_data",
     failed_at |-> ""]

\* a run that stops before the aggregation: by the guard on og_df.empty
\* (outcome "no_data"), or by an exception (outcome "error")
Stopped(prev, df, outcome, failed_at) ==
    [og_df |-> df,
     monthly_sum_df |-> Unbound(prev.monthly_sum_df),
     monthly_average_df |-> Unbound(prev.monthly_average_df),
     monthly_median_df |-> Unbound(prev.monthly_median_df),
     merged_df |-> Unbound(prev.merged_df),
     weekday_df |-> Unbound(prev.weekday_df),
     charts |-> Unbound(prev.charts),
     outcome |-> outcome,
     failed_at |-> failed_at]

main(f, prev) ==
    LET rd == read_csv(f)
        df0 == IF f.present THEN rd.df ELSE <<>>
        net == apply_net_amount(df0)
        sum_df == compute_monthly_sum(net.df)
        average_df == compute_monthly_average(net.df)
        median_df == compute_monthly_median(net.df)
        weekday == compute_weekday_sum(net.df)
        merged == merge_monthly(sum_df, average_df, median_df)
    IN  IF f.present /\ rd.raised
        THEN Stopped(prev, <<>>, "error", "read_csv")
        ELSE IF empty(df0)
        THEN Stopped(prev, df0, "no_data", "")
        ELSE IF "date" \notin f.cols
        THEN Stopped(prev, df0, "error", "to_datetime")
        ELSE IF net.raised
        THEN Stopped(prev, df0, "error", "net_amount")
        ELSE [og_df |-> net.df,
              monthly_sum_df |-> sum_df,
              monthly_average_df |-> average_df,
              monthly_median_df |-> median_df,
              merged_df |-> merged,
              weekday_df |-> weekday,
              charts |-> render(merged, weekday),
              outcome |-> "rendered",
              failed_at |-> ""]

-----------------------------------------------------------------------------
(* The session: the file in the uploader and what the latest run computed   *)
(* and rendered (the monthly tables as returned, before main deletes them). *)

VARIABLES uploaded_file, og_df, monthly_sum_df, monthly_average_df,
          monthly_median_df, merged_df, weekday_df, charts, outcome, failed_at

vars == <<uploaded_file, og_df, monthly_sum_df, monthly_average_df,
          monthly_median_df, merged_df, weekday_df, charts, outcome, failed_at>>

Dates == {Date(2023, 12, 31), Date(2024, 1, 5), Date(2024, 1, 8), Date(2024, 3, 4)}
Debits == {Fl(0), Fl(5)}
Credits == {Fl(5), NegZero}

RowPool == {Row(dt, debit, credit) : dt \in Dates, debit \in Debits, credit \in Credits}

\* the rows of the worked example of the documentation
ScenarioRows ==
    << Row(Date(2024, 1, 5), Fl(10), Fl(40)),
       Row(Date(2024, 1, 20), Fl(5), Fl(5)),
       Row(Date(2024, 2, 1), Fl(0), Fl(20)) >>

Init ==
    /\ uploaded_file = NoFile
    /\ og_df = <<>>
    /\ monthly_sum_df = <<>>
    /\ monthly_average_df = <<>>
    /\ monthly_median_df = <<>>
    /\ merged_df = <<>>
    /\ weekday_df = <<>>
    /\ charts = <<>>
    /\ outcome = "idle"
    /\ failed_at = ""

Previous ==
    [monthly_sum_df |-> monthly_sum_df,
     monthly_average_df |-> monthly_average_df,
     monthly_median_df |-> monthly_median_df,
     merged_df |-> merged_df,
     weekday_df |-> weekday_df,
     charts |-> charts]

\* the script runs from top to bottom with f in the uploader
Run(f) ==
    \E r \in {main(f, Previous)} :
        /\ uploaded_file' = f
        /\ og_df' = r.og_df
        /\ monthly_sum_df' = r.monthly_sum_df
        /\ monthly_average_df' = r.monthly_average_df
        /\ monthly_median_df' = r.monthly_median_df
        /\ merged_df' = r.merged_df
        /\ weekday_df' = r.weekday_df
        /\ charts' = r.charts
        /\ outcome' = r.outcome
        /\ failed_at' = r.failed_at

WellFormed(f) == f.present /\ f.cols = Columns

\* the page is loaded, or the file is removed from the uploader
RunWithoutFile == Run(NoFile)

\* the user uploads the ledger with one more transaction
UploadAppended ==
    /\ outcome # "idle"
    /\ \E r \in RowPool :
          LET base == IF WellFormed(uploaded_file) THEN uploaded_file.rows ELSE <<>>
          IN  /\ Len(base) < MaxRows
              /\ Run(File(Columns, Append(base, r)))

\* a file that has the header line and no data row
UploadHeaderOnly ==
    /\ outcome # "idle"
    /\ Run(File(Columns, <<>>))

\* a file of zero bytes
UploadZeroByte ==
    /\ outcome # "idle"
    /\ Run(File({}, <<>>))

UploadScenario ==
    /\ outcome # "idle"
    /\ Len(ScenarioRows) <= MaxRows
    /\ Run(File(Columns, ScenarioRows))

\* the same table exported without one of its columns
UploadWithoutColumn ==
    /\ outcome # "idle"
    /\ WellFormed(uploaded_file)
    /\ \E c \in Columns :
          Run(File(Columns \ {c}, Project(uploaded_file.rows, Columns \ {c})))

Next ==
    \/ RunWithoutFile
    \/ UploadAppended
    \/ UploadHeaderOnly
    \/ UploadZeroByte
    \/ UploadScenario
    \/ UploadWithoutColumn

Spec == Init /\ [][Next]_vars

-----------------------------------------------------------------------------
(* Properties.  The calendar facts below are stated outright for the dates  *)
(* of the inputs, and sums are plain integer sums.                          *)

Rendered == outcome = "rendered"

\* the weekday of each input date, from the calendar
KnownDay(dt) ==
    CASE dt = Date(2023, 12, 31) -> "Sunday"
      [] dt = Date(2024, 1, 5) -> "Friday"
      [] dt = Date(2024, 1, 8) -> "Monday"
      [] dt = Date(2024, 1, 20) -> "Saturday"
      [] dt = Date(2024, 2, 1) -> "Thursday"
      [] dt = Date(2024, 3, 4) -> "Monday"

\* the calendar months from December 2023 to March 2024, in order
KnownMonths == <<"December 2023", "January 2024", "February 2024", "March 2024">>

\* the position in KnownMonths of the month of an input date
KnownMonth(dt) == IF dt.year = 2023 THEN 1 ELSE dt.month + 1

\* the integer sum of a column of whole numbers
RECURSIVE Total(_)
Total(s) == IF s = <<>> THEN 0 ELSE s[1].n + Total(Tail(s))

Whole(s) == \A i \in 1..Len(s) : s[i].kind = "fin" /\ s[i].d = 1

\* x is the number n / d
IsNumber(x, n, d) == x.kind = "fin" /\ x.n * d = n * x.d

\* the records of the latest run on a weekday / in a month
RecordsOn(name) == SelectSeq(og_df, LAMBDA r : KnownDay(r["date"]) = name)
RecordsIn(k) == SelectSeq(og_df, LAMBDA r : KnownMonth(r["date"]) = k)

OccupiedMonths == {KnownMonth(og_df[i]["date"]) : i \in 1..Len(og_df)}

NoTable ==
    /\ monthly_sum_df = <<>>
    /\ monthly_average_df = <<>>
    /\ monthly_median_df = <<>>
    /\ merged_df = <<>>
    /\ weekday_df = <<>>

\* C1: every record of the uploaded table gets net_amount = credit - debit,
\* and the stored value is exactly +0.0 whenever credit equals debit.
C1_NetAmountIsCreditMinusDebit ==
    Rendered =>
        /\ Len(og_df) = Len(uploaded_file.rows)
        /\ \A i \in 1..Len(og_df) :
              LET credit == uploaded_file.rows[i]["credit"]
                  debit == uploaded_file.rows[i]["debit"]
              IN  /\ og_df[i]["credit"] = credit
                  /\ og_df[i]["debit"] = debit
                  /\ IsNumber(og_df[i]["net_amount"],
                              credit.n * debit.d - debit.n * credit.d,
                              credit.d * debit.d)
                  /\ (NumEq(credit, debit) => og_df[i]["net_amount"] = Fl(0))

\* a rendered run with a record of credit -0.0 and debit 0, stored as +0.0
C1_Witness ==
    /\ Rendered
    /\ \E i \in 1..Len(og_df) :
          /\ og_df[i]["credit"] = NegZero
          /\ og_df[i]["debit"] = Fl(0)
          /\ og_df[i]["net_amount"] = Fl(0)

\* C2: the net_amount column of the monthly sum table adds up to the sum of
\* net_amount over all input records.
C2_MonthlySumConserved ==
    Rendered =>
        /\ Whole(Values(og_df, "net_amount"))
        /\ Whole(Values(monthly_sum_df, "net_amount"))
        /\ Total(Values(monthly_sum_df, "net_amount"))
              = Total(Values(og_df, "net_amount"))

\* records in two months with a skipped month between them, non-zero total
C2_Witness ==
    /\ Rendered
    /\ Len(monthly_sum_df) >= 3
    /\ Cardinality(OccupiedMonths) = 2
    /\ Total(Values(og_df, "net_amount")) # 0

\* C3 as stated: the merged table has as many rows as there are distinct
\* calendar months among the input dates.
C3_RowPerDistinctMonth ==
    Rendered => Len(merged_df) = Cardinality(OccupiedMonths)

\* C3 amended: the merged table has exactly one row per calendar month from
\* the earliest to the latest month of the input, in order, whether or not a
\* record falls in the month; a skipped month has sum 0 and missing average
\* and median.
C3_RowPerMonthOfSpan ==
    Rendered =>
        LET first == CHOOSE k \in OccupiedMonths : \A j \in OccupiedMonths : k <= j
            last == CHOOSE k \in OccupiedMonths : \A j \in OccupiedMonths : k >= j
        IN  /\ Len(merged_df) = last - first + 1
            /\ \A k \in 1..Len(merged_df) :
                  /\ merged_df[k]["month_name"] = KnownMonths[first + k - 1]
                  /\ (first + k - 1) \notin OccupiedMonths =>
                        /\ merged_df[k]["sum_net_amount"] = Fl(0)
                        /\ merged_df[k]["avg_net_amount"] = NaN
                        /\ merged_df[k]["median_net_amount"] = NaN

\* the input skips a month: more rows than distinct months
C3_Witness ==
    /\ Rendered
    /\ Len(merged_df) > Cardinality(OccupiedMonths)

\* C4: the weekday table has exactly the rows Monday, Tuesday, Wednesday,
\* Thursday, Friday, in this order, whichever weekdays occur in the input.
C4_WeekdayTableHasFiveRows ==
    Rendered =>
        /\ Len(weekday_df) = 5
        /\ Values(weekday_df, "day")
              = <<"Monday", "Tuesday", "Wednesday", "Thursday", "Friday">>

\* a rendered run whose records all fall on a weekend
C4_Witness ==
    /\ Rendered
    /\ \A i \in 1..Len(og_df) : KnownDay(og_df[i]["date"]) \in {"Saturday", "Sunday"}
    /\ Len(weekday_df) = 5

\* C5: the weekday table is the one of the input without its Saturday and
\* Sunday records, and the net_amount of a weekday with records is the sum of
\* the net_amount of exactly the records of that weekday.
C5_WeekendNeverContributes ==
    Rendered =>
        /\ weekday_df = compute_weekday_sum(
              SelectSeq(og_df,
                        LAMBDA r : KnownDay(r["date"]) \notin {"Saturday", "Sunday"}))
        /\ \A k \in 1..5 :
              LET name == <<"Monday", "Tuesday", "Wednesday", "Thursday", "Friday">>[k]
                  row == SelectSeq(weekday_df, LAMBDA r : r["day"] = name)
              IN  RecordsOn(name) # <<>> =>
                     /\ Len(row) = 1
                     /\ IsNumber(row[1]["net_amount"],
                                 Total(Values(RecordsOn(name), "net_amount")), 1)

\* a weekend record with a non-zero net_amount beside a weekday record
C5_Witness ==
    /\ Rendered
    /\ \E i, j \in 1..Len(og_df) :
          /\ KnownDay(og_df[i]["date"]) \in {"Saturday", "Sunday"}
          /\ og_df[i]["net_amount"] # Fl(0)
          /\ KnownDay(og_df[j]["date"]) \notin {"Saturday", "Sunday"}


HeaderOnly(f) == f.present /\ f.cols # {} /\ f.rows = <<>>

NoDataPoint(chart) ==
    \A t \in 1..Len(chart.traces) : chart.traces[t].x = <<>> /\ chart.traces[t].y = <<>>

LacksCredit(f) == f.present /\ f.cols # {} /\ "credit" \notin f.cols

Aborted(step) ==
    /\ outcome = "error"
    /\ failed_at = step
    /\ NoTable
    /\ charts = <<>>

NothingBefore ==
    [monthly_sum_df |-> <<>>, monthly_average_df |-> <<>>,
     monthly_median_df |-> <<>>, merged_df |-> <<>>, weekday_df |-> <<>>,
     charts |-> <<>>]

IsMedian(v, s) ==
    LET n == Len(s)
        Below(x) == Cardinality({i \in 1..n : s[i].n < x})
        Above(x) == Cardinality({i \in 1..n : s[i].n > x})
    IN  IF n % 2 = 1
        THEN \E i \in 1..n :
                /\ 2 * Below(s[i].n) < n
                /\ 2 * Above(s[i].n) < n
                /\ IsNumber(v, s[i].n, 1)
        ELSE \E i, j \in 1..n :
                /\ 2 * Below(s[i].n) < n /\ 2 * Above(s[i].n) <= n
                /\ 2 * Above(s[j].n) < n /\ 2 * Below(s[j].n) <= n
                /\ IsNumber(v, s[i].n + s[j].n, 2)

RowOf(label) == SelectSeq(merged_df, LAMBDA r : r["month_name"] = label)

\* C9: for every month with a record, the merged row labelled with the month
\* holds the sum, the mean and the median of the month's net_amount values;
\* the worked example gives January 2024: 30, 15, 15 and February 2024: 20.
C9_MonthlyRowHoldsSumMeanMedian ==
    Rendered =>
        /\ \A k \in OccupiedMonths :
              LET row == RowOf(KnownMonths[k])
                  net == Values(RecordsIn(k), "net_amount")
              IN  /\ Len(row) = 1
                  /\ Whole(net)
                  /\ IsNumber(row[1]["sum_net_amount"], Total(net), 1)
                  /\ IsNumber(row[1]["avg_net_amount"], Total(net), Len(net))
                  /\ IsMedian(row[1]["median_net_amount"], net)
        /\ uploaded_file.rows = ScenarioRows =>
              /\ Values(og_df, "net_amount") = <<Fl(30), Fl(0), Fl(20)>>
              /\ Len(RowOf("January 2024")) = 1
              /\ RowOf("January 2024")[1]["sum_net_amount"] = Fl(30)
              /\ RowOf("January 2024")[1]["avg_net_amount"] = Fl(15)
              /\ RowOf("January 2024")[1]["median_net_amount"] = Fl(15)
              /\ Len(RowOf("February 2024")) = 1
              /\ RowOf("February 2024")[1]["sum_net_amount"] = Fl(20)

\* the worked example has been uploaded and rendered
C9_Witness ==
    /\ Rendered
    /\ uploaded_file.rows = ScenarioRows
    /\ Len(merged_df) = 2

\* C10: a weekday without a record has its row, with missing values for
\* net_amount, debit and credit; a weekday with records has numbers, 0 when
\* they add up to 0.
C10_AbsentWeekdayIsMissingNotZero ==
    Rendered =>
        \A k \in 1..5 :
            LET name == <<"Monday", "Tuesday", "Wednesday", "Thursday", "Friday">>[k]
                row == SelectSeq(weekday_df, LAMBDA r : r["day"] = name)
            IN  /\ Len(row) = 1
                /\ RecordsOn(name) = <<>> =>
                      /\ row[1]["net_amount"] = NaN
                      /\ row[1]["debit"] = NaN
                      /\ row[1]["credit"] = NaN
                /\ RecordsOn(name) # <<>> =>
                      /\ row[1]["net_amount"].kind = "fin"
                      /\ row[1]["debit"].kind = "fin"
                      /\ row[1]["credit"].kind = "fin"
                      /\ (Total(Values(RecordsOn(name), "net_amount")) = 0
                            => row[1]["net_amount"] = Fl(0))

\* a weekday without a record beside a weekday whose two records cancel
C10_Witness ==
    /\ Rendered
    /\ RecordsOn("Tuesday") = <<>>
    /\ weekday_df[2]["net_amount"] = NaN
    /\ Len(RecordsOn("Monday")) = 2
    /\ RecordsOn("Monday")[1]["net_amount"] # Fl(0)
    /\ weekday_df[1]["net_amount"] = Fl(0)

====
